---------------------------- MODULE Spec2Model ----------------------------
(***************************************************************************)
(* Model of report.py (workTimeReporter): the lazily loaded Configuration  *)
(* singleton, the ISO-week date resolver, the month split of the working   *)
(* days of a week and the textual report built from it.                    *)
(*                                                                         *)
(* A behaviour is one Python process.  The environment (system date,       *)
(* configuration file, holiday provider) is fixed by Init; every action is *)
(* one call of a module-level function of report.py, run to completion.    *)
(* An uncaught exception or sys.exit ends the process.                     *)
(***************************************************************************)
EXTENDS Integers, Sequences, FiniteSets, TLC

VARIABLES
    today,      \* the system date, what date.today() returns
    file,       \* the configuration file time_report_config.json
    holidays,   \* the <<month, day>> pairs the resolved calendar reports as holidays
    CFG,        \* report.CFG: 0 is None, n > 0 refers to objs[n]
    objs,       \* the Configuration objects constructed so far, in order
    nLoads,     \* how many times Configuration.__init__ opened the file
    status,     \* "running", "raised" (uncaught exception), "exited" (sys.exit)
    week_delta, \* args.week, the --week argument of the process
    last,       \* the last call: [op, arg, exc, ret]
    stdout      \* what the last call printed, one entry per print()

vars == <<today, file, holidays, week_delta, CFG, objs, nLoads, status, last, stdout>>

-----------------------------------------------------------------------------
(* Bounds of the model *)

FirstYear == 2020
YearSpan == 6
MaxWeek == 54
MaxDelta == 1

(* Program constants *)

DAYS_IN_A_WEEK == 7

-----------------------------------------------------------------------------
(* datetime.date: the proleptic Gregorian calendar arithmetic that         *)
(* date.fromisocalendar, date.isocalendar and date.month rest on.          *)

Date(y, m, d) == [year |-> y, month |-> m, day |-> d]

is_leap(year) == year % 4 = 0 /\ (year % 100 # 0 \/ year % 400 = 0)

days_before_year(year) ==
    LET y == year - 1 IN y * 365 + y \div 4 - y \div 100 + y \div 400

days_in_month(year, month) ==
    IF month = 2 /\ is_leap(year) THEN 29
    ELSE <<31, 28, 31, 30, 31, 30, 31, 31, 30, 31, 30, 31>>[month]

days_before_month(year, month) ==
    <<0, 31, 59, 90, 120, 151, 181, 212, 243, 273, 304, 334>>[month]
        + (IF month > 2 /\ is_leap(year) THEN 1 ELSE 0)

ymd2ord(year, month, day) ==
    days_before_year(year) + days_before_month(year, month) + day

toordinal(d) == ymd2ord(d.year, d.month, d.day)

\* date.fromordinal, the month and day within the year: n days after 1 January
ord2ymd_month(year, n, month, preceding) ==
    IF preceding > n
    THEN Date(year, month - 1,
              n - (preceding - days_in_month(year, month - 1)) + 1)
    ELSE Date(year, month, n - preceding + 1)

\* date.fromordinal, after the 400/100/4/1-year cycle decomposition
ord2ymd_cycles(n400, n100, n4, n1, n) ==
    LET in_year(year) ==
            IF n1 = 4 \/ n100 = 4
            THEN Date(year - 1, 12, 31)
            ELSE ord2ymd_month(year, n, (n + 50) \div 32,
                               days_before_month(year, (n + 50) \div 32))
    IN  in_year(n400 * 400 + 1 + n100 * 100 + n4 * 4 + n1)

\* date.fromordinal (CPython's _ord2ymd)
ord2ymd(ordinal) ==
    LET cycles(n0) ==
            ord2ymd_cycles(n0 \div 146097,
                           (n0 % 146097) \div 36524,
                           ((n0 % 146097) % 36524) \div 1461,
                           (((n0 % 146097) % 36524) % 1461) \div 365,
                           (((n0 % 146097) % 36524) % 1461) % 365)
    IN  cycles(ordinal - 1)

\* the ordinal of the Monday of ISO week 1 of a year
isoweek1monday(year) ==
    LET week1monday(firstday, firstweekday) ==
            IF firstweekday > 3
            THEN firstday - firstweekday + 7
            ELSE firstday - firstweekday
        from(firstday) == week1monday(firstday, (firstday + 6) % 7)
    IN  from(ymd2ord(year, 1, 1))

\* date.isocalendar(): [year, week, weekday]
isocalendar(d) ==
    LET before(year, ord, w0) ==
            [year |-> year - 1, week |-> (ord - w0) \div 7 + 1,
             weekday |-> ((ord - w0) % 7) + 1]
        iso(year, ord, week1monday) ==
            IF (ord - week1monday) \div 7 < 0
            THEN before(year, ord, isoweek1monday(year - 1))
            ELSE IF /\ (ord - week1monday) \div 7 >= 52
                    /\ ord >= isoweek1monday(year + 1)
            THEN [year |-> year + 1, week |-> 1,
                  weekday |-> ((ord - week1monday) % 7) + 1]
            ELSE [year |-> year, week |-> (ord - week1monday) \div 7 + 1,
                  weekday |-> ((ord - week1monday) % 7) + 1]
    IN  iso(d.year, toordinal(d), isoweek1monday(d.year))

\* the week check of date.fromisocalendar: 1..52, and 53 in a long year
iso_week_valid(year, week) ==
    \/ 0 < week /\ week < 53
    \/ /\ week = 53
       /\ LET first_weekday == ymd2ord(year, 1, 1) % 7
          IN  first_weekday = 4 \/ (first_weekday = 3 /\ is_leap(year))

\* (mutant) the weekday counted from 0: every date one day late
isoweek_to_gregorian_day_from_zero(year, week, day) ==
    ord2ymd(isoweek1monday(year) + (week - 1) * 7 + day)

\* the date of an accepted ISO triple
isoweek_to_gregorian(year, week, day) ==
    ord2ymd(isoweek1monday(year) + (week - 1) * 7 + (day - 1))

\* date.fromisocalendar(year, week, day): [exc, ret]
fromisocalendar(year, week, day) ==
    IF iso_week_valid(year, week) /\ 0 < day /\ day < 8
    THEN [exc |-> "", ret |-> isoweek_to_gregorian(year, week, day)]
    ELSE [exc |-> "ValueError", ret |-> <<>>]

\* date.strftime in the C locale: %d and %m (two digits), %a, %B
Pad2(n) == IF n < 10 THEN "0" \o ToString(n) ELSE ToString(n)

DayAbbr ==
    <<"Mon", "Tue", "Wed", "Thu", "Fri", "Sat", "Sun">>

MonthName ==
    <<"January", "February", "March", "April", "May", "June", "July",
      "August", "September", "October", "November", "December">>

-----------------------------------------------------------------------------
(* The environment: configuration file and holiday provider *)

\* the order in which Configuration.__init__ reads the keys
KeyOrder ==
    <<"report_language", "country", "continent", "start_hour", "end_hour",
      "work_days", "vacation", "holiday">>

Keys == {KeyOrder[i] : i \in 1..Len(KeyOrder)}

\* the attribute a key is stored in
AttrName(key) ==
    CASE key = "vacation" -> "vacation_spelling"
      [] key = "holiday"  -> "holiday_spelling"
      [] OTHER            -> key

\* what generate_config.py writes
config_dict ==
    [report_language |-> "English", country |-> "Poland",
     continent |-> "Europe", start_hour |-> "8:00", end_hour |-> "17:00",
     work_days |-> {1, 2, 3, 4, 5}, holiday |-> "Holiday",
     vacation |-> "Vacation"]

\* str.lower() on the names the model uses
Lower(s) ==
    CASE s = "Europe"   -> "europe"
      [] s = "Poland"   -> "poland"
      [] s = "Atlantis" -> "atlantis"
      [] OTHER          -> s

\* the provider modules that can be imported, and the classes each defines
ProviderClasses(module_name) ==
    IF module_name = "workalendar.europe.poland" THEN {"Poland"} ELSE {}

\* load_country_module: [ok, out]; on a failed import or getattr it prints
\* the diagnostics and the process exits
load_country_module(continent_name, country_name) ==
    LET failed(error_info) ==
            [ok |-> FALSE,
             out |-> <<"Failed to import country: " \o country_name,
                       "Error: " \o error_info,
                       "Please note, country needs to be formatted like this: 'continent.country'",
                       "Example: 'europe.poland'">>]
        resolve(module_name) ==
            IF ProviderClasses(module_name) = {}
            THEN failed("No module named '" \o module_name \o "'")
            ELSE IF country_name \notin ProviderClasses(module_name)
            THEN failed("module '" \o module_name \o "' has no attribute '"
                            \o country_name \o "'")
            ELSE [ok |-> TRUE, out |-> <<>>]
    IN  resolve("workalendar." \o Lower(continent_name) \o "."
                    \o Lower(country_name))

-----
(* class Configuration *)

\* how many assignments of the try block complete before a KeyError
Assigned(data) ==
    LET missing == {i \in 1..Len(KeyOrder) : KeyOrder[i] \notin DOMAIN data}
    IN  IF missing = {} THEN Len(KeyOrder)
        ELSE (CHOOSE i \in missing : \A j \in missing : i <= j) - 1

\* (mutant) every key present is assigned, not only those before the KeyError
AssignedAttrs_every_present_key(data, n) ==
    [a \in {AttrName(k) : k \in DOMAIN data} |->
        data[CHOOSE k \in Keys : AttrName(k) = a]]

\* the attributes the try block sets when its first n assignments complete
AssignedAttrs(data, n) ==
    [a \in {AttrName(KeyOrder[i]) : i \in 1..n} |->
        data[CHOOSE k \in Keys : AttrName(k) = a]]

\* what the except KeyError handler prints
KeyErrorReport(n) ==
    IF n < Len(KeyOrder)
    THEN <<"Failed to access configuration parameter: '"
               \o KeyOrder[n + 1] \o "'">>
    ELSE <<>>

\* Configuration(): [exc, out, obj]; exc = "" when the constructor returns
Configuration ==
    LET resolved(attrs, out, country_class) ==
            IF ~country_class.ok
            THEN [exc |-> "SystemExit", out |-> out \o country_class.out,
                  obj |-> <<>>]
            ELSE [exc |-> "", out |-> out,
                  obj |-> [attrs |-> attrs, calendar |-> holidays]]
        construct(attrs, out) ==
            IF ~({"continent", "country"} \subseteq DOMAIN attrs)
            THEN [exc |-> "AttributeError", out |-> out, obj |-> <<>>]
            ELSE resolved(attrs, out,
                          load_country_module(attrs["continent"], attrs["country"]))
        try(data, n) == construct(AssignedAttrs(data, n), KeyErrorReport(n))
    IN  IF ~file.exists
        THEN [exc |-> "SystemExit",
              out |-> <<"Failed to load configuration file: [Errno 2] No such "
                           \o "file or directory: 'time_report_config.json'">>,
              obj |-> <<>>]
        ELSE IF ~file.json
        THEN [exc |-> "JSONDecodeError", out |-> <<>>, obj |-> <<>>]
        ELSE try(file.data, Assigned(file.data))

is_holiday(cfg, day) == <<day.month, day.day>> \in cfg.calendar

\* (mutant) date.weekday(), Monday = 0, in place of the ISO weekday
is_workday_weekday_from_zero(cfg, day) ==
    (isocalendar(day).weekday - 1) \in cfg.attrs["work_days"]

\* requires the work_days attribute
is_workday(cfg, day) == isocalendar(day).weekday \in cfg.attrs["work_days"]

is_vacation(cfg, day) == FALSE

\* (mutant) no cache: every call constructs a Configuration
get_cfg_uncached ==
    LET loaded(c) ==
            IF c.exc = ""
            THEN [exc |-> "", out |-> c.out, CFG |-> Len(objs) + 1,
                  objs |-> Append(objs, c.obj), loads |-> nLoads + 1]
            ELSE [exc |-> c.exc, out |-> c.out, CFG |-> CFG,
                  objs |-> objs, loads |-> nLoads + 1]
    IN  loaded(Configuration)

\* get_cfg(): the call's outcome and the globals after it.
\*   exc, out: exception raised and lines printed;  CFG, objs, loads: the
\*   module global, the objects constructed and the load count after the call
get_cfg ==
    LET loaded(c) ==
            IF c.exc = ""
            THEN [exc |-> "", out |-> c.out, CFG |-> Len(objs) + 1,
                  objs |-> Append(objs, c.obj), loads |-> nLoads + 1]
            ELSE [exc |-> c.exc, out |-> c.out, CFG |-> CFG,
                  objs |-> objs, loads |-> nLoads + 1]
    IN  IF CFG = 0
        THEN loaded(Configuration)
        ELSE [exc |-> "", out |-> <<>>, CFG |-> CFG, objs |-> objs,
              loads |-> nLoads]

\* the globals when get_cfg has not been called
NoCfgCall ==
    [exc |-> "", out |-> <<>>, CFG |-> CFG, objs |-> objs, loads |-> nLoads]


-----------------------------------------------------------------------------
(* Date resolver *)

\* (mutant) the calendar year in place of the ISO year
get_current_year_calendar == today.year

get_current_year == isocalendar(today).year

get_current_week == isocalendar(today).week

\* get_day_from_week(week, day): [exc, ret]
get_day_from_week(week, day) ==
    fromisocalendar(get_current_year, week, day)

-----------------------------------------------------------------------------
(* Report builder.  An outcome is [exc, ret, g]: the exception raised ("" *)
(* for none), the value returned, and g, the outcome of get_cfg() in it.   *)

\* (mutant) the month change is not looked at
split_by_month_never(work_days) == <<work_days>>

\* lines 135-145: one group, or one group per month when the month changes
split_by_month(work_days) ==
    IF work_days[1].month # work_days[Len(work_days)].month
    THEN LET first_moth   == work_days[1].month
             second_month == work_days[Len(work_days)].month
         IN  <<SelectSeq(work_days, LAMBDA day : day.month = first_moth),
               SelectSeq(work_days, LAMBDA day : day.month = second_month)>>
    ELSE <<work_days>>

get_list_of_days(week) ==
    LET split(work_days, g) ==
            IF work_days = <<>>
            THEN [exc |-> "IndexError", ret |-> <<>>, g |-> g]
            ELSE [exc |-> "", ret |-> split_by_month(work_days), g |-> g]
        filter(week_days, cfg, g) ==
            IF "work_days" \notin DOMAIN cfg.attrs
            THEN [exc |-> "AttributeError", ret |-> <<>>, g |-> g]
            ELSE split(SelectSeq(week_days, LAMBDA day : is_workday(cfg, day)), g)
        days(got, g) ==
            IF \E d \in 1..DAYS_IN_A_WEEK : got[d].exc # ""
            THEN [exc |-> "ValueError", ret |-> <<>>, g |-> NoCfgCall]
            ELSE IF g.exc # ""
            THEN [exc |-> g.exc, ret |-> <<>>, g |-> g]
            ELSE filter([d \in 1..DAYS_IN_A_WEEK |-> got[d].ret],
                        g.objs[g.CFG], g)
    IN  days([d \in 1..DAYS_IN_A_WEEK |-> get_day_from_week(week, d)], get_cfg)

\* (mutant) the holiday and the vacation spelling taken for each other
description_swapped_labels(cfg, day) ==
    LET has(a) == a \in DOMAIN cfg.attrs
        fail   == [exc |-> "AttributeError", ret |-> ""]
    IN  IF is_holiday(cfg, day)
        THEN IF has("vacation_spelling")
             THEN [exc |-> "", ret |-> cfg.attrs["vacation_spelling"]]
             ELSE fail
        ELSE IF is_vacation(cfg, day)
        THEN IF has("holiday_spelling")
             THEN [exc |-> "", ret |-> cfg.attrs["holiday_spelling"]]
             ELSE fail
        ELSE IF has("start_hour") /\ has("end_hour")
             THEN [exc |-> "",
                   ret |-> "Start: " \o cfg.attrs["start_hour"]
                               \o "; End: " \o cfg.attrs["end_hour"]]
             ELSE fail

\* lines 154-162: [exc, ret], the description of a day
description(cfg, day) ==
    LET has(a) == a \in DOMAIN cfg.attrs
        fail   == [exc |-> "AttributeError", ret |-> ""]
    IN  IF is_holiday(cfg, day)
        THEN IF has("holiday_spelling")
             THEN [exc |-> "", ret |-> cfg.attrs["holiday_spelling"]]
             ELSE fail
        ELSE IF is_vacation(cfg, day)
        THEN IF has("vacation_spelling")
             THEN [exc |-> "", ret |-> cfg.attrs["vacation_spelling"]]
             ELSE fail
        ELSE IF has("start_hour") /\ has("end_hour")
             THEN [exc |-> "",
                   ret |-> "Start: " \o cfg.attrs["start_hour"]
                               \o "; End: " \o cfg.attrs["end_hour"]]
             ELSE fail

\* format_day once the configuration is at hand: [exc, ret]
format_day_of(cfg, day) ==
    LET line(date_str, day_name, d) ==
            IF d.exc # "" THEN d
            ELSE [exc |-> "",
                  ret |-> day_name \o "-" \o date_str \o ".: " \o d.ret]
    IN  line(Pad2(day.day) \o ":" \o Pad2(day.month),
             DayAbbr[isocalendar(day).weekday], description(cfg, day))

format_day(day) ==
    LET with(g, r) ==
            IF g.exc # ""
            THEN [exc |-> g.exc, ret |-> "", g |-> g]
            ELSE [exc |-> r.exc, ret |-> r.ret, g |-> g]
        of(g) == with(g, format_day_of(g.objs[g.CFG], day))
    IN  of(get_cfg)

\* (mutant) the first day of the group at both ends of the range
title_first_day_twice(sub_week) ==
    "Working hours " \o Pad2(sub_week[1].day) \o "-"
        \o Pad2(sub_week[1].day) \o " Of "
        \o MonthName[sub_week[1].month]

\* line 176
title(sub_week) ==
    "Working hours " \o Pad2(sub_week[1].day) \o "-"
        \o Pad2(sub_week[Len(sub_week)].day) \o " Of "
        \o MonthName[sub_week[1].month]

\* lines 175-181 for one group: [exc, ret]
sub_report(cfg, sub_week) ==
    LET collect(lines) ==
            IF \E i \in 1..Len(sub_week) : lines[i].exc # ""
            THEN [exc |-> "AttributeError", ret |-> <<>>]
            ELSE [exc |-> "",
                  ret |-> <<title(sub_week)>>
                              \o [i \in 1..Len(sub_week) |-> lines[i].ret]]
    IN  collect([i \in 1..Len(sub_week) |-> format_day_of(cfg, sub_week[i])])

get_reports(week) ==
    LET collect(subs, g) ==
            IF \E k \in 1..Len(subs) : subs[k].exc # ""
            THEN [exc |-> "AttributeError", ret |-> <<>>, g |-> g]
            ELSE [exc |-> "", ret |-> [k \in 1..Len(subs) |-> subs[k].ret],
                  g |-> g]
        reports(l) ==
            IF l.exc # "" THEN l
            ELSE collect([k \in 1..Len(l.ret) |->
                             sub_report(l.g.objs[l.g.CFG], l.ret[k])], l.g)
    IN  reports(get_list_of_days(week))

RECURSIVE printed(_)
\* what print_report prints for the reports: each line, then "\n" per group
printed(reports) ==
    IF reports = <<>> THEN <<>>
    ELSE Head(reports) \o <<"\n">> \o printed(Tail(reports))

\* print_report(week): [exc, ret, g, out]
print_report(week) ==
    LET show(r) ==
            [exc |-> r.exc, ret |-> <<>>, g |-> r.g,
             out |-> IF r.exc = "" THEN printed(r.ret) ELSE <<>>]
    IN  show(get_reports(week))

\* main(): the week is the current week plus args.week
main == print_report(get_current_week + week_delta)

-----------------------------------------------------------------------------
(* The process *)

\* the week main passes down, and the dates of the seven days from then on
week_arg == get_current_week + week_delta

day_args ==
    {ord2ymd(toordinal(today) + 7 * week_delta + k) : k \in 0..6}

\* a call ends: the globals, the call record and what it printed
Return(op, arg, r, out) ==
    /\ CFG' = r.g.CFG
    /\ objs' = r.g.objs
    /\ nLoads' = r.g.loads
    /\ status' = CASE r.exc = ""           -> "running"
                   [] r.exc = "SystemExit" -> "exited"
                   [] OTHER                -> "raised"
    /\ last' = [op |-> op, arg |-> arg, exc |-> r.exc, ret |-> r.ret]
    /\ stdout' = r.g.out \o out
    /\ UNCHANGED <<today, file, holidays, week_delta>>

CallGetCfg ==
    /\ status = "running"
    /\ LET done(g) ==
               Return("get_cfg", <<>>,
                      [exc |-> g.exc, ret |-> IF g.exc = "" THEN g.CFG ELSE 0,
                       g |-> g], <<>>)
       IN  done(get_cfg)

CallGetDayFromWeek(day) ==
    /\ status = "running"
    /\ LET done(r) ==
               Return("get_day_from_week", <<week_arg, day>>,
                      [exc |-> r.exc, ret |-> r.ret, g |-> NoCfgCall], <<>>)
       IN  done(get_day_from_week(week_arg, day))

CallGetListOfDays ==
    /\ status = "running"
    /\ Return("get_list_of_days", <<week_arg>>, get_list_of_days(week_arg), <<>>)

CallFormatDay(day) ==
    /\ status = "running"
    /\ Return("format_day", <<day>>, format_day(day), <<>>)

CallGetReports ==
    /\ status = "running"
    /\ Return("get_reports", <<week_arg>>, get_reports(week_arg), <<>>)

Main ==
    /\ status = "running"
    /\ LET done(r) == Return("main", <<week_delta>>, r, r.out)
       IN  done(main)

Next ==
    \/ CallGetCfg
    \/ \E day \in 1..DAYS_IN_A_WEEK : CallGetDayFromWeek(day)
    \/ CallGetListOfDays
    \/ \E day \in day_args : CallFormatDay(day)
    \/ CallGetReports
    \/ Main

-----------------------------------------------------------------------------
(* Environments *)

Years == FirstYear..(FirstYear + YearSpan)

\* the fixed-date holidays of the Polish calendar
PolandFixed ==
    {<<1, 1>>, <<1, 6>>, <<5, 1>>, <<5, 3>>, <<8, 15>>, <<11, 1>>,
     <<11, 11>>, <<12, 25>>, <<12, 26>>}

WorkDaySets ==
    {{1, 2, 3, 4, 5}, {1, 3, 7}, {6, 7}, {1, 2, 3, 4, 5, 6, 7}, {}}

File(data) == [exists |-> TRUE, json |-> TRUE, data |-> data]

GoodFiles ==
    {File([config_dict EXCEPT !.work_days = w]) : w \in WorkDaySets}

MissingKeyFiles ==
    {File([k \in Keys \ {m} |-> config_dict[k]]) : m \in Keys}

ProviderFiles ==
    {File([config_dict EXCEPT !.country = c]) : c \in {"poland", "Atlantis"}}
        \cup {File([k \in Keys \ {"holiday"} |->
                       IF k = "country" THEN "Atlantis" ELSE config_dict[k]])}

BrokenFiles ==
    {[exists |-> FALSE, json |-> TRUE, data |-> <<>>],
     [exists |-> TRUE, json |-> FALSE, data |-> <<>>]}

Start ==
    /\ CFG = 0
    /\ objs = <<>>
    /\ nLoads = 0
    /\ status = "running"
    /\ last = [op |-> "", arg |-> <<>>, exc |-> "", ret |-> <<>>]
    /\ stdout = <<>>

\* the process in every kind of configuration, around a year's end
Init ==
    /\ today \in {Date(FirstYear, 12, 28), Date(FirstYear + 1, 1, 1),
                  Date(FirstYear + 1, 6, 30)}
    /\ week_delta \in (0 - MaxDelta)..MaxDelta
    /\ file \in GoodFiles \cup MissingKeyFiles \cup ProviderFiles \cup BrokenFiles
    /\ holidays \in {{}, PolandFixed}
    /\ Start

Spec == Init /\ [][Next]_vars

\* every week number of every year, from week 1 of the year: weeks 0..MaxWeek
InitWeeks ==
    /\ today \in {Date(y, 1, 4) : y \in Years}
    /\ week_delta \in (0 - 1)..(MaxWeek - 1)
    /\ file \in GoodFiles
    /\ holidays = PolandFixed
    /\ Start

SpecWeeks == InitWeeks /\ [][Next]_vars

\* the report of the current week on every day of every year
InitToday ==
    /\ today \in {Date(y, m, d) : y \in Years, m \in 1..12, d \in 1..31}
    /\ today.day <= days_in_month(today.year, today.month)
    /\ week_delta = 0
    /\ file = File(config_dict)
    /\ holidays = PolandFixed
    /\ Start

NextToday == CallGetCfg \/ Main

SpecToday == InitToday /\ [][NextToday]_vars


-----------------------------------------------------------------------------
(* Properties *)

RECURSIVE Concat(_)
\* the groups of a split, one after the other
Concat(groups) ==
    IF groups = <<>> THEN <<>> ELSE Head(groups) \o Concat(Tail(groups))

\* the dates of ISO week W of the current ISO year, by ordinal from its Monday
WeekOf(W) ==
    [d \in 1..7 |->
        ord2ymd(isoweek1monday(isocalendar(today).year) + 7 * (W - 1) + (d - 1))]

\* the configured work days, as written in the file
WorkDays == file.data["work_days"]

\* the dates of week W on a configured work day, in date order
Filtered(W) ==
    SelectSeq(WeekOf(W), LAMBDA day : isocalendar(day).weekday \in WorkDays)

Listed == last.op = "get_list_of_days" /\ last.exc = ""

\* C1: get_list_of_days(W) returns groups that hold only dates on a configured
\* work day, and the groups in order are exactly the week's seven dates
\* filtered by the work days, in date order, none twice and none left out; it
\* returns whenever the week is valid and has a work day.
C1_GroupsAreTheFilteredWeek ==
    /\ Listed =>
          /\ \A k \in 1..Len(last.ret) : \A i \in 1..Len(last.ret[k]) :
                isocalendar(last.ret[k][i]).weekday \in WorkDays
          /\ Concat(last.ret) = Filtered(last.arg[1])
    /\ ( /\ last.op = "get_list_of_days"
         /\ CFG # 0
         /\ "work_days" \in DOMAIN objs[CFG].attrs
         /\ iso_week_valid(isocalendar(today).year, last.arg[1])
         /\ WorkDays \cap (1..7) # {} ) => last.exc = ""

C1_Witness ==
    /\ Listed
    /\ WorkDays = {1, 3, 7}
    /\ Len(last.ret) = 2
    /\ Len(Concat(last.ret)) = 3

\* C2: exactly two groups when the first and the last working day of the week
\* lie in different months, the working days of the earlier month and then
\* those of the later month, both non-empty; otherwise exactly one group with
\* all working days.  The days of a group share one month.
C2_OneGroupPerMonth ==
    Listed =>
       LET split(w) ==
               /\ w # <<>>
               /\ IF w[1].month # w[Len(w)].month
                  THEN /\ Len(last.ret) = 2
                       /\ last.ret[1] =
                             SelectSeq(w, LAMBDA day : day.month = w[1].month)
                       /\ last.ret[2] =
                             SelectSeq(w, LAMBDA day : day.month = w[Len(w)].month)
                       /\ last.ret[1] # <<>> /\ last.ret[2] # <<>>
                  ELSE last.ret = <<w>>
               /\ \A k \in 1..Len(last.ret) : \A i \in 1..Len(last.ret[k]) :
                     last.ret[k][i].month = last.ret[k][1].month
       IN  split(Filtered(last.arg[1]))

C2_Witness ==
    /\ Listed
    /\ Len(last.ret) = 2
    /\ last.ret[1][1].month = 12
    /\ last.ret[2][1].month = 1
    /\ Len(last.ret[1]) + Len(last.ret[2]) = 5

\* C3: get_day_from_week(week, weekday) returns a date also for a week number
\* outside the current ISO year's weeks, the date that many weeks from week 1.
C3_OutOfRangeWeekResolves ==
    ( /\ last.op = "get_day_from_week"
      /\ ~iso_week_valid(isocalendar(today).year, last.arg[1]) ) =>
          /\ last.exc = ""
          /\ last.ret = WeekOf(last.arg[1])[last.arg[2]]

\* C4: with no working day in the requested week, get_list_of_days returns an
\* empty split and get_reports an empty report, instead of failing.
C4_EmptyWeekGivesEmptySplit ==
    ( /\ last.op \in {"get_list_of_days", "get_reports"}
      /\ CFG # 0
      /\ "work_days" \in DOMAIN objs[CFG].attrs
      /\ iso_week_valid(isocalendar(today).year, last.arg[1])
      /\ WorkDays \cap (1..7) = {} ) =>
          /\ last.exc = ""
          /\ last.ret = <<>>

\* C5: format_day(d) gives the holiday label whenever d is a holiday, whether
\* or not it is a work day; otherwise the vacation label if d is a vacation
\* day; otherwise the working hours.  The line holds that one description.
C5_DescriptionPriority ==
    (last.op = "format_day" /\ last.exc = "") =>
       LET line(day, text) ==
               last.ret = DayAbbr[isocalendar(day).weekday] \o "-"
                              \o Pad2(day.day) \o ":" \o Pad2(day.month)
                              \o ".: " \o text
           written(key) == key \in DOMAIN file.data
           expect(day) ==
               IF <<day.month, day.day>> \in holidays
               THEN written("holiday") /\ line(day, file.data["holiday"])
               ELSE IF is_vacation(objs[CFG], day)
               THEN written("vacation") /\ line(day, file.data["vacation"])
               ELSE /\ written("start_hour") /\ written("end_hour")
                    /\ line(day, "Start: " \o file.data["start_hour"]
                                     \o "; End: " \o file.data["end_hour"])
       IN  expect(last.arg[1])

C5_Witness ==
    /\ last.op = "format_day"
    /\ last.exc = ""
    /\ <<last.arg[1].month, last.arg[1].day>> \in holidays
    /\ isocalendar(last.arg[1]).weekday \notin WorkDays
    /\ last.ret = "Fri-01:01.: Holiday"

\* C6: for a valid ISO week W of the current year the week's dates are seven
\* consecutive days, Monday to Sunday, with ISO weekday numbers 1..7 in order:
\* each get_day_from_week(W, d) is day d of ISO week W, and the week as
\* get_list_of_days lists it (every day a work day) is those seven days.
C6_WeekIsMondayToSunday ==
    /\ ( /\ last.op = "get_day_from_week"
         /\ iso_week_valid(isocalendar(today).year, last.arg[1]) ) =>
            /\ last.exc = ""
            /\ isocalendar(last.ret) =
                  [year |-> isocalendar(today).year, week |-> last.arg[1],
                   weekday |-> last.arg[2]]
    /\ ( /\ last.op = "get_list_of_days"
         /\ iso_week_valid(isocalendar(today).year, last.arg[1])
         /\ WorkDays = 1..7 ) =>
            /\ last.exc = ""
            /\ LET week(days) ==
                       /\ Len(days) = 7
                       /\ \A d \in 1..7 : isocalendar(days[d]).weekday = d
                       /\ \A d \in 1..6 :
                             toordinal(days[d + 1]) = toordinal(days[d]) + 1
               IN  week(Concat(last.ret))

C6_Witness ==
    /\ Listed
    /\ WorkDays = 1..7
    /\ last.arg[1] = 53
    /\ Len(Concat(last.ret)) = 7

\* C7: get_reports(W) has one sub-report per group of get_list_of_days(W), in
\* order: the title "Working hours DD-DD Of Month" of the group's first and
\* last day and the first day's month, then format_day of each day of the
\* group, len(group) + 1 lines in all.
C7_ReportPerGroup ==
    (last.op = "get_reports" /\ last.exc = "") =>
       LET report(groups) ==
               /\ Len(last.ret) = Len(groups)
               /\ \A k \in 1..Len(groups) :
                     /\ Len(last.ret[k]) = Len(groups[k]) + 1
                     /\ last.ret[k][1] =
                           "Working hours " \o Pad2(groups[k][1].day) \o "-"
                               \o Pad2(groups[k][Len(groups[k])].day) \o " Of "
                               \o MonthName[groups[k][1].month]
                     /\ \A i \in 1..Len(groups[k]) :
                           last.ret[k][i + 1] = format_day(groups[k][i]).ret
       IN  report(get_list_of_days(last.arg[1]).ret)

C7_Witness ==
    /\ last.op = "get_reports"
    /\ last.exc = ""
    /\ Len(last.ret) = 2
    /\ last.ret[1] = <<"Working hours 28-31 Of December",
                       "Mon-28:12.: Start: 8:00; End: 17:00",
                       "Tue-29:12.: Start: 8:00; End: 17:00",
                       "Wed-30:12.: Start: 8:00; End: 17:00",
                       "Thu-31:12.: Start: 8:00; End: 17:00">>
    /\ last.ret[2] = <<"Working hours 01-01 Of January",
                       "Fri-01:01.: Holiday">>

\* C8: once a get_cfg() call has loaded the configuration, it was constructed
\* exactly once, every get_cfg() call returns that object, and CFG is never
\* replaced or reset.
C8_LoadedOnce ==
    /\ [](CFG # 0 => nLoads = 1 /\ Len(objs) = 1 /\ CFG = 1)
    /\ []((last.op = "get_cfg" /\ last.exc = "") => last.ret = CFG /\ CFG # 0)
    /\ [][CFG # 0 => CFG' = CFG /\ objs' = objs /\ nLoads' = nLoads]_vars

\* a later get_cfg() call: the first call of the process reports the key
C8_Witness ==
    /\ last.op = "get_cfg"
    /\ last.exc = ""
    /\ nLoads = 1
    /\ Assigned(file.data) < Len(KeyOrder)
    /\ stdout = <<>>

\* a configuration file that lacks a required key
KeyMissing == file.exists /\ file.json /\ Assigned(file.data) < Len(KeyOrder)

\* the file names a country and a continent whose provider class resolves
ProviderResolves ==
    /\ {"country", "continent"} \subseteq DOMAIN file.data
    /\ file.data["country"] \in
          ProviderClasses("workalendar." \o Lower(file.data["continent"]) \o "."
                              \o Lower(file.data["country"]))

\* C9 as claimed: whichever key is absent, get_cfg() returns an object.
C9_AnyMissingKeyLoads ==
    (KeyMissing /\ last.op = "get_cfg") => (last.exc = "" /\ CFG # 0)

\* C9: when a required key is absent the load reports the first absent key.
\* If that key is start_hour or a later one and the provider resolves,
\* get_cfg() returns an object with exactly the attributes assigned before it,
\* and a failure comes only when an unset attribute is read (an unresolved
\* provider exits the process); if it is report_language, country or
\* continent, Configuration() itself fails with AttributeError and CFG stays
\* unset.
C9_MissingKeyLoad ==
    (KeyMissing /\ last.op # "" /\ nLoads > 0) =>
       LET load(n) ==
               /\ nLoads = 1
               /\ (stdout # <<>> /\ last.op = "get_cfg") =>
                     stdout[1] = "Failed to access configuration parameter: '"
                                     \o KeyOrder[n + 1] \o "'"
               /\ IF n >= 3 /\ ~ProviderResolves
                  THEN CFG = 0 /\ last.exc = "SystemExit" /\ status = "exited"
                  ELSE IF n >= 3
                  THEN /\ CFG = 1
                       /\ DOMAIN objs[CFG].attrs =
                             {AttrName(KeyOrder[i]) : i \in 1..n}
                       /\ \A i \in 1..n :
                             objs[CFG].attrs[AttrName(KeyOrder[i])] =
                                file.data[KeyOrder[i]]
                       /\ last.op = "get_cfg" => last.exc = ""
                       /\ last.exc \in {"", "AttributeError", "ValueError"}
                  ELSE /\ CFG = 0
                       /\ last.exc = "AttributeError"
                       /\ status = "raised"
                       /\ stdout = <<"Failed to access configuration parameter: '"
                                         \o KeyOrder[n + 1] \o "'">>
       IN  load(Assigned(file.data))

\* loaded without start_hour, and the later read of it fails
C9_Witness ==
    /\ KeyMissing
    /\ Assigned(file.data) = 3
    /\ CFG = 1
    /\ last.op = "format_day"
    /\ last.exc = "AttributeError"

\* C10: on every date, also one whose ISO year is not its calendar year, the
\* current year and week name a valid ISO week, today is one of its seven
\* dates, and main with offset 0 reports that week without error.
C10_CurrentWeekHoldsToday ==
    /\ \A d \in 1..7 : get_day_from_week(get_current_week, d).exc = ""
    /\ get_day_from_week(get_current_week, isocalendar(today).weekday).ret = today
    /\ (last.op = "main" /\ week_delta = 0) =>
          /\ last.exc = ""
          /\ isocalendar(today).weekday \in WorkDays =>
                \E i \in 1..Len(stdout) :
                    stdout[i] = format_day_of(objs[CFG], today).ret

C10_Witness ==
    /\ last.op = "main"
    /\ last.exc = ""
    /\ today.year # isocalendar(today).year
    /\ isocalendar(today).weekday \in WorkDays

=============================================================================
